---- MODULE Spec2Model ----
(***************************************************************************)
(* Model of the multi-train scheduler of A2/mts.c: one thread per train,   *)
(* one dispatcher thread, four sorted ready queues, one mutex              *)
(* (scheduling_mutex), the dispatcher's condition variable (ready_cv) and  *)
(* one condition variable per train.                                       *)
(*                                                                         *)
(* Time.  The program reads CLOCK_MONOTONIC once per train (the ready      *)
(* stamp) and only ever compares the readings.  The model keeps the        *)
(* readings as small integers: clock is the least value the next reading   *)
(* can take, a reading is clock or clock + 1, and a usleep (loading or     *)
(* crossing, each of a positive duration) guarantees that a reading taken  *)
(* after it is larger than every reading taken before it began.            *)
(***************************************************************************)
EXTENDS Integers, Sequences, FiniteSets, TLC

\* direction_t (mts.c:13-16)
EAST == 0
WEST == 1

\* largest roster the main specification explores
MaxTrains == 3

\* most wake-ups without a signal that one run explores
MaxSpurious == 1

\* owner of scheduling_mutex: a train id, the dispatcher, or nobody
MUTEX_FREE == -2
DISPATCHER == -1

\* <stdint.h> INT64_MAX = 2^63 - 1, returned by peek_ns for an empty queue.
\* TLC integers are 32 bits wide, so the value is carried as its exact
\* decimal numeral; it is never an operand of a comparison, because
\* choose_from_pair reads peek_ns only when both queues are non-empty.
INT64_MAX == "9223372036854775807"

VARIABLES
    trains,            \* roster: id -> [dir, high_priority]
    n_trains,
    pc,                \* position of every train thread
    ready_time_ns,     \* trains[i].ready_time_ns, -1 until stamped
    my_turn,           \* trains[i].my_turn
    usleep_from,       \* value of clock when the train's current usleep began
    clock,
    mutex,             \* owner of scheduling_mutex
    dpc,               \* position of the dispatcher thread
    east_high, east_low, west_high, west_low,
    track_in_use, trains_finished, have_ever_crossed, last_dir, same_dir_streak,
    sel_log,           \* history: one record per selection of the dispatcher
    crossed,           \* history: ids of the trains in the order they left the track
    spurious,          \* number of spurious wake-ups so far
    run, prev_ts, prev_log,  \* replay harness: the run number and what run 1 did
    last_op            \* queue harness: the last queue_push / queue_pop call

vars == <<trains, n_trains, pc, ready_time_ns, my_turn, usleep_from, clock, mutex,
          dpc, east_high, east_low, west_high, west_low, track_in_use,
          trains_finished, have_ever_crossed, last_dir, same_dir_streak,
          sel_log, crossed, spurious, run, prev_ts, prev_log, last_op>>

queues == <<east_high, east_low, west_high, west_low>>
sched == <<track_in_use, trains_finished, have_ever_crossed, last_dir, same_dir_streak>>
replay == <<run, prev_ts, prev_log, last_op>>

Ids == 0 .. (n_trains - 1)

Max(a, b) == IF a >= b THEN a ELSE b

\* the four direction/priority classes parse_line accepts: e, E, w, W
TrainClass == [dir : {EAST, WEST}, high_priority : {0, 1}]

(***************************************************************************)
(* Ready queues                                                            *)
(***************************************************************************)

\* ready_node
Node(idx, ready_ns) == [idx |-> idx, ready_ns |-> ready_ns]

\* variant: equal stamps count as "before" (<= for <), so that the order of
\* tied nodes follows the order of insertion
ready_comes_before_ties(idxA, nsA, idxB, nsB) ==
    IF nsA < nsB THEN TRUE
    ELSE IF nsA > nsB THEN FALSE
    ELSE TRUE

\* variant: equal stamps resolved towards the higher id
ready_comes_before_high_id(idxA, nsA, idxB, nsB) ==
    IF nsA < nsB THEN TRUE
    ELSE IF nsA > nsB THEN FALSE
    ELSE idxA > idxB


ready_comes_before(idxA, nsA, idxB, nsB) ==
    IF nsA < nsB THEN TRUE
    ELSE IF nsA > nsB THEN FALSE
    ELSE idxA < idxB

\* variant: the new node is linked at the tail
queue_push_append(head, idx, ready_ns) == Append(head, Node(idx, ready_ns))

RECURSIVE queue_push(_, _, _)
queue_push(head, idx, ready_ns) ==
    IF head = << >> THEN << Node(idx, ready_ns) >>
    ELSE IF ready_comes_before(idx, ready_ns, Head(head).idx, Head(head).ready_ns)
         THEN << Node(idx, ready_ns) >> \o head
         ELSE << Head(head) >> \o queue_push(Tail(head), idx, ready_ns)

\* variant: the head is read but not unlinked
queue_pop_keep(head) ==
    IF head = << >> THEN [idx |-> -1, head |-> head]
    ELSE [idx |-> Head(head).idx, head |-> head]

\* queue_pop returns the head's idx (or -1) and leaves the rest in *head
queue_pop(head) ==
    IF head = << >> THEN [idx |-> -1, head |-> head]
    ELSE [idx |-> Head(head).idx, head |-> Tail(head)]

peek_idx(h) == IF h # << >> THEN Head(h).idx ELSE -1

peek_ns(h) == IF h # << >> THEN Head(h).ready_ns ELSE INT64_MAX

any_ready(eh, el, wh, wl) ==
    eh # << >> \/ el # << >> \/ wh # << >> \/ wl # << >>

\* variant: queue A is served whenever it is non-empty
choose_from_pair_east_first(A, B) ==
    IF peek_idx(A) >= 0
    THEN [idx |-> queue_pop(A).idx, A |-> queue_pop(A).head, B |-> B]
    ELSE IF peek_idx(B) >= 0
    THEN [idx |-> queue_pop(B).idx, A |-> A, B |-> queue_pop(B).head]
    ELSE [idx |-> -1, A |-> A, B |-> B]

\* choose_from_pair: idx is the train chosen, A and B the two queues afterwards
choose_from_pair(A, B) ==
    LET ai == peek_idx(A)
        bi == peek_idx(B)
    IN  IF ai >= 0 /\ bi >= 0
        THEN IF ready_comes_before(ai, peek_ns(A), bi, peek_ns(B))
             THEN [idx |-> queue_pop(A).idx, A |-> queue_pop(A).head, B |-> B]
             ELSE [idx |-> queue_pop(B).idx, A |-> A, B |-> queue_pop(B).head]
        ELSE IF ai >= 0
        THEN [idx |-> queue_pop(A).idx, A |-> queue_pop(A).head, B |-> B]
        ELSE IF bi >= 0
        THEN [idx |-> queue_pop(B).idx, A |-> A, B |-> queue_pop(B).head]
        ELSE [idx |-> -1, A |-> A, B |-> B]

\* result of a selection: the train and the four queues afterwards
Chosen(idx, eh, el, wh, wl) ==
    [idx |-> idx, east_high |-> eh, east_low |-> el, west_high |-> wh, west_low |-> wl]

\* variant: the Low queues are looked at before the High queues
normal_rule_low_first(eh, el, wh, wl) ==
    IF el # << >> \/ wl # << >>
    THEN LET r == choose_from_pair(el, wl) IN Chosen(r.idx, eh, r.A, wh, r.B)
    ELSE IF eh # << >> \/ wh # << >>
    THEN LET r == choose_from_pair(eh, wh) IN Chosen(r.idx, r.A, el, r.B, wl)
    ELSE Chosen(-1, eh, el, wh, wl)

\* variant: the Low queues are forgotten
normal_rule_high_only(eh, el, wh, wl) ==
    IF eh # << >> \/ wh # << >>
    THEN LET r == choose_from_pair(eh, wh) IN Chosen(r.idx, r.A, el, r.B, wl)
    ELSE Chosen(-1, eh, el, wh, wl)

\* the last part of choose_next_idx_full: normal priority + tie rules
normal_rule(eh, el, wh, wl) ==
    IF eh # << >> \/ wh # << >>
    THEN LET r == choose_from_pair(eh, wh) IN Chosen(r.idx, r.A, el, r.B, wl)
    ELSE IF el # << >> \/ wl # << >>
    THEN LET r == choose_from_pair(el, wl) IN Chosen(r.idx, eh, r.A, wh, r.B)
    ELSE Chosen(-1, eh, el, wh, wl)

\* variant: balancing starts one crossing late (streak >= 3)
balancing_rule_late(eh, el, wh, wl, last, streak) ==
    IF streak >= 3
    THEN IF last = EAST
         THEN IF wh # << >> THEN Chosen(queue_pop(wh).idx, eh, el, queue_pop(wh).head, wl)
              ELSE IF wl # << >> THEN Chosen(queue_pop(wl).idx, eh, el, wh, queue_pop(wl).head)
              ELSE normal_rule(eh, el, wh, wl)
         ELSE IF eh # << >> THEN Chosen(queue_pop(eh).idx, queue_pop(eh).head, el, wh, wl)
              ELSE IF el # << >> THEN Chosen(queue_pop(el).idx, eh, queue_pop(el).head, wh, wl)
              ELSE normal_rule(eh, el, wh, wl)
    ELSE normal_rule(eh, el, wh, wl)

\* variant: the opposite Low queue is looked at before the opposite High
balancing_rule_low_first(eh, el, wh, wl, last, streak) ==
    IF streak >= 2
    THEN IF last = EAST
         THEN IF wl # << >> THEN Chosen(queue_pop(wl).idx, eh, el, wh, queue_pop(wl).head)
              ELSE IF wh # << >> THEN Chosen(queue_pop(wh).idx, eh, el, queue_pop(wh).head, wl)
              ELSE normal_rule(eh, el, wh, wl)
         ELSE IF el # << >> THEN Chosen(queue_pop(el).idx, eh, queue_pop(el).head, wh, wl)
              ELSE IF eh # << >> THEN Chosen(queue_pop(eh).idx, queue_pop(eh).head, el, wh, wl)
              ELSE normal_rule(eh, el, wh, wl)
    ELSE normal_rule(eh, el, wh, wl)

\* the middle part of choose_next_idx_full: direction balancing
balancing_rule(eh, el, wh, wl, last, streak) ==
    IF streak >= 2
    THEN IF last = EAST
         THEN IF wh # << >> THEN Chosen(queue_pop(wh).idx, eh, el, queue_pop(wh).head, wl)
              ELSE IF wl # << >> THEN Chosen(queue_pop(wl).idx, eh, el, wh, queue_pop(wl).head)
              ELSE normal_rule(eh, el, wh, wl)
         ELSE IF eh # << >> THEN Chosen(queue_pop(eh).idx, queue_pop(eh).head, el, wh, wl)
              ELSE IF el # << >> THEN Chosen(queue_pop(el).idx, eh, queue_pop(el).head, wh, wl)
              ELSE normal_rule(eh, el, wh, wl)
    ELSE normal_rule(eh, el, wh, wl)

\* variant: no preference for West before the first crossing
choose_next_idx_full_no_bootstrap(eh, el, wh, wl, ever, last, streak) ==
    balancing_rule(eh, el, wh, wl, last, streak)


choose_next_idx_full(eh, el, wh, wl, ever, last, streak) ==
    IF ever = 0 /\ wh # << >>
    THEN Chosen(queue_pop(wh).idx, eh, el, queue_pop(wh).head, wl)
    ELSE IF ever = 0 /\ wl # << >>
    THEN Chosen(queue_pop(wl).idx, eh, el, wh, queue_pop(wl).head)
    ELSE balancing_rule(eh, el, wh, wl, last, streak)

(***************************************************************************)
(* Condition variables and the monotonic clock                             *)
(***************************************************************************)

\* variant: the signal does not reach the waiting dispatcher
cond_signal_ready_lost(d) == d

\* pthread_cond_signal / pthread_cond_broadcast on ready_cv: only the
\* dispatcher waits on it; a signal with no waiter is lost
cond_signal_ready(d) == IF d = "d_waiting" THEN "d_woken" ELSE d

\* pthread_cond_signal on trains[idx].cv: only train idx waits on it
cond_signal_train(p) == IF p = "waiting" THEN "woken" ELSE p

\* variant: the wait condition does not look at track_in_use
dispatcher_must_wait_no_track(ready, in_use, finished, n) ==
    ~ready /\ finished < n

\* the dispatcher's inner wait condition (mts.c:326)
dispatcher_must_wait(ready, in_use, finished, n) ==
    (~ready \/ in_use = 1) /\ finished < n

\* variant: the counter is left as it was
next_finished_same(finished) == finished

\* trains_finished++ of the Done step (mts.c:306)
next_finished(finished) == finished + 1

\* variant: the flag keeps its old value
next_ever_kept(ever) == ever

\* have_ever_crossed = 1 of the Done step (mts.c:299)
next_ever(ever) == 1

\* the streak update of the Done step (mts.c:300-305)
next_last_dir(d, last) == IF d = last THEN last ELSE d
\* variant: the streak is not reset on a change of direction
next_streak_no_reset(d, last, streak) == streak + 1


next_streak(d, last, streak) == IF d = last THEN streak + 1 ELSE 1

(***************************************************************************)
(* Initial state: after load_trains and before any thread has run          *)
(***************************************************************************)

InitRoster(n, roster) ==
    /\ n_trains = n
    /\ trains = roster
    /\ pc = [i \in 0 .. (n - 1) |-> "loading"]
    /\ ready_time_ns = [i \in 0 .. (n - 1) |-> -1]
    /\ my_turn = [i \in 0 .. (n - 1) |-> 0]
    /\ usleep_from = [i \in 0 .. (n - 1) |-> 0]
    /\ clock = 0
    /\ mutex = MUTEX_FREE
    /\ dpc = "start"
    /\ east_high = << >> /\ east_low = << >>
    /\ west_high = << >> /\ west_low = << >>
    /\ track_in_use = 0
    /\ trains_finished = 0
    /\ have_ever_crossed = 0
    /\ last_dir = EAST
    /\ same_dir_streak = 0
    /\ sel_log = << >>
    /\ crossed = << >>
    /\ spurious = 0
    /\ run = 1
    /\ prev_ts = << >>
    /\ prev_log = << >>
    /\ last_op = [op |-> "none"]

Init ==
    \E n \in 1 .. MaxTrains :
        \E roster \in [0 .. (n - 1) -> TrainClass] : InitRoster(n, roster)

(***************************************************************************)
(* Larger rosters, started part-way through a run: every train outside     *)
(* late has loaded, stamped, enqueued itself and waits for its grant, and  *)
(* the dispatcher has not selected yet (it is about to take the mutex for  *)
(* the first time, or was signalled by the first enqueue and has not       *)
(* re-acquired the mutex).  The trains in late are still loading.          *)
(***************************************************************************)

QueuedTrains == 4
\* number of distinct clock readings among the enqueued trains
MaxStamp == 2

\* the queue holding the trains of S of one class, built by queue_push
RECURSIVE PushAll(_, _, _)
PushAll(S, ts, q) ==
    IF S = {} THEN q
    ELSE LET t == CHOOSE x \in S : TRUE
         IN  PushAll(S \ {t}, ts, queue_push(q, t, ts[t]))

ClassMembers(n, roster, late, d, h) ==
    {t \in (0 .. (n - 1)) \ late : roster[t].dir = d /\ roster[t].high_priority = h}

\* readings of a monotonic clock that advances by at most one between readings
StampsOf(n, late) ==
    {ts \in [0 .. (n - 1) -> {-1} \cup (1 .. MaxStamp)] :
        /\ \A t \in 0 .. (n - 1) : (ts[t] = -1) <=> (t \in late)
        /\ \A t \in 0 .. (n - 1) :
              ts[t] > 1 => \E u \in 0 .. (n - 1) : ts[u] = ts[t] - 1}

MaxOf(f) == CHOOSE m \in {f[x] : x \in DOMAIN f} : \A y \in DOMAIN f : f[y] <= m

InitQueuedRoster(n, roster, late, ts, d0) ==
    /\ n_trains = n
    /\ trains = roster
    /\ pc = [i \in 0 .. (n - 1) |-> IF i \in late THEN "loading" ELSE "waiting"]
    /\ ready_time_ns = ts
    /\ my_turn = [i \in 0 .. (n - 1) |-> 0]
    /\ usleep_from = [i \in 0 .. (n - 1) |-> 0]
    /\ clock = Max(MaxOf(ts), 0)
    /\ mutex = MUTEX_FREE
    /\ dpc = d0
    /\ east_high = PushAll(ClassMembers(n, roster, late, EAST, 1), ts, << >>)
    /\ east_low = PushAll(ClassMembers(n, roster, late, EAST, 0), ts, << >>)
    /\ west_high = PushAll(ClassMembers(n, roster, late, WEST, 1), ts, << >>)
    /\ west_low = PushAll(ClassMembers(n, roster, late, WEST, 0), ts, << >>)
    /\ track_in_use = 0
    /\ trains_finished = 0
    /\ have_ever_crossed = 0
    /\ last_dir = EAST
    /\ same_dir_streak = 0
    /\ sel_log = << >>
    /\ crossed = << >>
    /\ spurious = 0
    /\ run = 1
    /\ prev_ts = << >>
    /\ prev_log = << >>
    /\ last_op = [op |-> "none"]

\* scenario B of the specification: four East trains and one West train
\* (one train more than QueuedTrains, exactly one of them West)
ScenarioB(n, roster) ==
    /\ n = QueuedTrains + 1
    /\ Cardinality({t \in 0 .. (n - 1) : roster[t].dir = WEST}) = 1

\* the trains still loading: none, or the last train of a roster of QueuedTrains
LateSets(n) == IF n = QueuedTrains THEN {{}, {n - 1}} ELSE {{}}

InitQueued ==
    \E n \in {QueuedTrains, QueuedTrains + 1} :
        \E roster \in [0 .. (n - 1) -> TrainClass] :
            /\ n = QueuedTrains \/ ScenarioB(n, roster)
            /\ \E late \in LateSets(n) :
                  \E ts \in StampsOf(n, late) :
                      \E d0 \in (IF late = {} THEN {"start", "d_woken"} ELSE {"d_woken"}) :
                          InitQueuedRoster(n, roster, late, ts, d0)

(***************************************************************************)
(* Train thread (train_thread)                                             *)
(***************************************************************************)

\* usleep(loading_time), then the ready stamp
Stamp(t) ==
    /\ pc[t] = "loading"
    /\ \E ns \in {clock, clock + 1} :
          /\ ns >= usleep_from[t] + 1
          /\ ready_time_ns' = [ready_time_ns EXCEPT ![t] = ns]
          /\ clock' = ns
    /\ pc' = [pc EXCEPT ![t] = "ready"]
    /\ UNCHANGED <<trains, n_trains, my_turn, usleep_from, mutex, dpc, queues, sched,
                   sel_log, crossed, spurious, replay>>

\* pthread_mutex_lock before the enqueue
TrainLock(t) ==
    /\ pc[t] = "ready"
    /\ mutex = MUTEX_FREE
    /\ mutex' = t
    /\ pc' = [pc EXCEPT ![t] = "locked"]
    /\ UNCHANGED <<trains, n_trains, ready_time_ns, my_turn, usleep_from, clock, dpc,
                   queues, sched, sel_log, crossed, spurious, replay>>

\* queue_push into the matching queue, signal ready_cv, then the first
\* evaluation of while (!my_turn): wait (releasing the mutex) or go on
TrainEnqueue(t) ==
    /\ pc[t] = "locked"
    /\ mutex = t
    /\ LET d == trains[t].dir
           h == trains[t].high_priority
           ns == ready_time_ns[t]
       IN  /\ east_high' = IF d = EAST /\ h # 0 THEN queue_push(east_high, t, ns) ELSE east_high
           /\ east_low'  = IF d = EAST /\ h = 0 THEN queue_push(east_low, t, ns) ELSE east_low
           /\ west_high' = IF d # EAST /\ h # 0 THEN queue_push(west_high, t, ns) ELSE west_high
           /\ west_low'  = IF d # EAST /\ h = 0 THEN queue_push(west_low, t, ns) ELSE west_low
    /\ dpc' = cond_signal_ready(dpc)
    /\ IF my_turn[t] = 0
       THEN /\ pc' = [pc EXCEPT ![t] = "waiting"]
            /\ UNCHANGED usleep_from
       ELSE /\ pc' = [pc EXCEPT ![t] = "crossing"]
            /\ usleep_from' = [usleep_from EXCEPT ![t] = clock]
    /\ mutex' = MUTEX_FREE
    /\ UNCHANGED <<trains, n_trains, ready_time_ns, my_turn, clock, sched,
                   sel_log, crossed, spurious, replay>>

\* pthread_cond_wait may return without a signal
TrainSpuriousWake(t) ==
    /\ pc[t] = "waiting"
    /\ spurious < MaxSpurious
    /\ spurious' = spurious + 1
    /\ pc' = [pc EXCEPT ![t] = "woken"]
    /\ UNCHANGED <<trains, n_trains, ready_time_ns, my_turn, usleep_from, clock, mutex,
                   dpc, queues, sched, sel_log, crossed, replay>>

\* variant: the train goes on after any wake-up, my_turn is not read again
TrainWake_no_recheck(t) ==
    /\ pc[t] = "woken"
    /\ mutex = MUTEX_FREE
    /\ pc' = [pc EXCEPT ![t] = "crossing"]
    /\ usleep_from' = [usleep_from EXCEPT ![t] = clock]
    /\ UNCHANGED <<trains, n_trains, ready_time_ns, my_turn, clock, mutex, dpc, queues,
                   sched, sel_log, crossed, spurious, replay>>

\* pthread_cond_wait returns with the mutex held; while (!my_turn) is
\* evaluated again: wait again, or unlock and start the crossing
TrainWake(t) ==
    /\ pc[t] = "woken"
    /\ mutex = MUTEX_FREE
    /\ IF my_turn[t] = 0
       THEN /\ pc' = [pc EXCEPT ![t] = "waiting"]
            /\ UNCHANGED usleep_from
       ELSE /\ pc' = [pc EXCEPT ![t] = "crossing"]
            /\ usleep_from' = [usleep_from EXCEPT ![t] = clock]
    /\ UNCHANGED <<trains, n_trains, ready_time_ns, my_turn, clock, mutex, dpc, queues,
                   sched, sel_log, crossed, spurious, replay>>

\* usleep(crossing_time) returns
TrainCrossed(t) ==
    /\ pc[t] = "crossing"
    /\ clock' = Max(clock, usleep_from[t] + 1)
    /\ pc' = [pc EXCEPT ![t] = "off"]
    /\ UNCHANGED <<trains, n_trains, ready_time_ns, my_turn, usleep_from, mutex, dpc,
                   queues, sched, sel_log, crossed, spurious, replay>>

\* pthread_mutex_lock before the Done bookkeeping
TrainDoneLock(t) ==
    /\ pc[t] = "off"
    /\ mutex = MUTEX_FREE
    /\ mutex' = t
    /\ pc' = [pc EXCEPT ![t] = "finishing"]
    /\ UNCHANGED <<trains, n_trains, ready_time_ns, my_turn, usleep_from, clock, dpc,
                   queues, sched, sel_log, crossed, spurious, replay>>

\* variant: the Done bookkeeping is written without taking the mutex
TrainDone_unlocked(t) ==
    /\ pc[t] = "off"
    /\ track_in_use' = 0
    /\ have_ever_crossed' = next_ever(have_ever_crossed)
    /\ last_dir' = next_last_dir(trains[t].dir, last_dir)
    /\ same_dir_streak' = next_streak(trains[t].dir, last_dir, same_dir_streak)
    /\ trains_finished' = next_finished(trains_finished)
    /\ dpc' = cond_signal_ready(cond_signal_ready(dpc))
    /\ pc' = [pc EXCEPT ![t] = "done"]
    /\ crossed' = Append(crossed, t)
    /\ UNCHANGED <<trains, n_trains, ready_time_ns, my_turn, usleep_from, clock, mutex,
                   queues, sel_log, spurious, replay>>

\* free the track, update the streak and the counters, wake the dispatcher
TrainDone(t) ==
    /\ pc[t] = "finishing"
    /\ mutex = t
    /\ track_in_use' = 0
    /\ have_ever_crossed' = next_ever(have_ever_crossed)
    /\ last_dir' = next_last_dir(trains[t].dir, last_dir)
    /\ same_dir_streak' = next_streak(trains[t].dir, last_dir, same_dir_streak)
    /\ trains_finished' = next_finished(trains_finished)
    /\ dpc' = cond_signal_ready(cond_signal_ready(dpc))
    /\ mutex' = MUTEX_FREE
    /\ pc' = [pc EXCEPT ![t] = "done"]
    /\ crossed' = Append(crossed, t)
    /\ UNCHANGED <<trains, n_trains, ready_time_ns, my_turn, usleep_from, clock, queues,
                   sel_log, spurious, replay>>

(***************************************************************************)
(* Dispatcher thread (dispatcher_main)                                     *)
(***************************************************************************)

\* what the dispatcher saw at one selection, and what it chose
Selection(idx) ==
    [idx |-> idx,
     east_high |-> east_high, east_low |-> east_low,
     west_high |-> west_high, west_low |-> west_low,
     ever |-> have_ever_crossed, last |-> last_dir, streak |-> same_dir_streak,
     in_use |-> track_in_use, crossed |-> crossed]

DispLock ==
    /\ dpc = "start"
    /\ mutex = MUTEX_FREE
    /\ mutex' = DISPATCHER
    /\ dpc' = "loop"
    /\ UNCHANGED <<trains, n_trains, pc, ready_time_ns, my_turn, usleep_from, clock,
                   queues, sched, sel_log, crossed, spurious, replay>>

\* the inner while: pthread_cond_wait(&ready_cv) releases the mutex
DispWait ==
    /\ dpc = "loop"
    /\ mutex = DISPATCHER
    /\ trains_finished < n_trains
    /\ dispatcher_must_wait(any_ready(east_high, east_low, west_high, west_low),
                            track_in_use, trains_finished, n_trains)
    /\ dpc' = "d_waiting"
    /\ mutex' = MUTEX_FREE
    /\ UNCHANGED <<trains, n_trains, pc, ready_time_ns, my_turn, usleep_from, clock,
                   queues, sched, sel_log, crossed, spurious, replay>>

DispSpuriousWake ==
    /\ dpc = "d_waiting"
    /\ spurious < MaxSpurious
    /\ spurious' = spurious + 1
    /\ dpc' = "d_woken"
    /\ UNCHANGED <<trains, n_trains, pc, ready_time_ns, my_turn, usleep_from, clock,
                   mutex, queues, sched, sel_log, crossed, replay>>

\* pthread_cond_wait returns with the mutex held
DispWake ==
    /\ dpc = "d_woken"
    /\ mutex = MUTEX_FREE
    /\ mutex' = DISPATCHER
    /\ dpc' = "loop"
    /\ UNCHANGED <<trains, n_trains, pc, ready_time_ns, my_turn, usleep_from, clock,
                   queues, sched, sel_log, crossed, spurious, replay>>

\* choose_next_idx_full, then the grant when a train was chosen; the
\* dispatcher keeps the mutex and evaluates its loop conditions again
DispGrant ==
    /\ dpc = "loop"
    /\ mutex = DISPATCHER
    /\ trains_finished < n_trains
    /\ ~dispatcher_must_wait(any_ready(east_high, east_low, west_high, west_low),
                             track_in_use, trains_finished, n_trains)
    /\ LET r == choose_next_idx_full(east_high, east_low, west_high, west_low,
                                     have_ever_crossed, last_dir, same_dir_streak)
       IN  /\ east_high' = r.east_high
           /\ east_low' = r.east_low
           /\ west_high' = r.west_high
           /\ west_low' = r.west_low
           /\ sel_log' = Append(sel_log, Selection(r.idx))
           /\ IF r.idx >= 0
              THEN /\ track_in_use' = 1
                   /\ my_turn' = [my_turn EXCEPT ![r.idx] = 1]
                   /\ pc' = [pc EXCEPT ![r.idx] = cond_signal_train(pc[r.idx])]
              ELSE UNCHANGED <<track_in_use, my_turn, pc>>
    /\ UNCHANGED <<trains, n_trains, ready_time_ns, usleep_from, clock, mutex, dpc,
                   trains_finished, have_ever_crossed, last_dir, same_dir_streak,
                   crossed, spurious, replay>>

\* trains_finished >= n_trains: leave the loop, unlock, return
DispExit ==
    /\ dpc = "loop"
    /\ mutex = DISPATCHER
    /\ trains_finished >= n_trains
    /\ dpc' = "exit"
    /\ mutex' = MUTEX_FREE
    /\ UNCHANGED <<trains, n_trains, pc, ready_time_ns, my_turn, usleep_from, clock,
                   queues, sched, sel_log, crossed, spurious, replay>>

TrainStep(t) ==
    \/ Stamp(t)
    \/ TrainLock(t)
    \/ TrainEnqueue(t)
    \/ TrainSpuriousWake(t)
    \/ TrainWake(t)
    \/ TrainCrossed(t)
    \/ TrainDoneLock(t)
    \/ TrainDone(t)

Next ==
    \/ \E t \in Ids : TrainStep(t)
    \/ DispLock
    \/ DispWait
    \/ DispSpuriousWake
    \/ DispWake
    \/ DispGrant
    \/ DispExit

Spec == Init /\ [][Next]_vars

SpecQueued == InitQueued /\ [][Next]_vars

(***************************************************************************)
(* Fair scheduling: a thread that can take a step not needing the mutex    *)
(* eventually takes it; a thread that asks for the mutex (in               *)
(* pthread_mutex_lock, or returning from pthread_cond_wait) gets it if it  *)
(* is free again and again.  Spurious wake-ups are never required.         *)
(***************************************************************************)

\* largest roster explored under fair scheduling
MaxLiveTrains == 2

InitLive ==
    \E n \in 1 .. MaxLiveTrains :
        \E roster \in [0 .. (n - 1) -> TrainClass] : InitRoster(n, roster)

TrainRuns(t) ==
    /\ t \in Ids
    /\ (Stamp(t) \/ TrainEnqueue(t) \/ TrainCrossed(t) \/ TrainDone(t))

TrainAcquires(t) ==
    /\ t \in Ids
    /\ (TrainLock(t) \/ TrainWake(t) \/ TrainDoneLock(t))

Fairness ==
    /\ \A t \in 0 .. (MaxLiveTrains - 1) :
          WF_vars(TrainRuns(t)) /\ SF_vars(TrainAcquires(t))
    /\ WF_vars(DispWait \/ DispGrant \/ DispExit)
    /\ SF_vars(DispLock \/ DispWake)

LiveSpec == InitLive /\ [][Next]_vars /\ Fairness

(***************************************************************************)
(* Replay: the program is run to completion, then run a second time on the *)
(* same roster; prev_ts and prev_log keep the stamps and the selections of *)
(* the first run.                                                          *)
(***************************************************************************)

\* largest roster that is replayed
MaxReplayTrains == 2

InitReplay ==
    \E n \in 1 .. MaxReplayTrains :
        \E roster \in [0 .. (n - 1) -> TrainClass] : InitRoster(n, roster)

Restart ==
    /\ run = 1
    /\ trains_finished = n_trains
    /\ dpc = "exit"
    /\ \A t \in Ids : pc[t] = "done"
    /\ run' = 2
    /\ prev_ts' = ready_time_ns
    /\ prev_log' = sel_log
    /\ UNCHANGED last_op
    /\ pc' = [i \in Ids |-> "loading"]
    /\ ready_time_ns' = [i \in Ids |-> -1]
    /\ my_turn' = [i \in Ids |-> 0]
    /\ usleep_from' = [i \in Ids |-> 0]
    /\ clock' = 0
    /\ mutex' = MUTEX_FREE
    /\ dpc' = "start"
    /\ east_high' = << >> /\ east_low' = << >>
    /\ west_high' = << >> /\ west_low' = << >>
    /\ track_in_use' = 0
    /\ trains_finished' = 0
    /\ have_ever_crossed' = 0
    /\ last_dir' = EAST
    /\ same_dir_streak' = 0
    /\ sel_log' = << >>
    /\ crossed' = << >>
    /\ spurious' = 0
    /\ UNCHANGED <<trains, n_trains>>

NextReplay ==
    \/ Next
    \/ Restart

SpecReplay == InitReplay /\ [][NextReplay]_vars

(***************************************************************************)
(* Vocabulary of the properties                                            *)
(***************************************************************************)

(***************************************************************************)
(* Queue harness: queue_push and queue_pop called in any order on the four *)
(* ready queues.  Every train is pushed at most once, into the queue of    *)
(* its class, with any stamp; queue_pop is called on any queue, empty or   *)
(* not.                                                                    *)
(***************************************************************************)

\* number of trains of the queue harness
QueueOpsTrains == 3

\* the queue a train of class c is pushed into
QueueOf(c) ==
    IF c.dir = EAST
    THEN (IF c.high_priority # 0 THEN east_high ELSE east_low)
    ELSE (IF c.high_priority # 0 THEN west_high ELSE west_low)

InitQueueOps ==
    \E roster \in [0 .. (QueueOpsTrains - 1) -> TrainClass] :
        InitRoster(QueueOpsTrains, roster)

QueuePushOp(t) ==
    /\ ready_time_ns[t] = -1
    /\ \E ns \in 1 .. MaxStamp :
        LET d == trains[t].dir
            h == trains[t].high_priority
        IN  /\ ready_time_ns' = [ready_time_ns EXCEPT ![t] = ns]
            /\ east_high' = IF d = EAST /\ h # 0 THEN queue_push(east_high, t, ns) ELSE east_high
            /\ east_low'  = IF d = EAST /\ h = 0 THEN queue_push(east_low, t, ns) ELSE east_low
            /\ west_high' = IF d # EAST /\ h # 0 THEN queue_push(west_high, t, ns) ELSE west_high
            /\ west_low'  = IF d # EAST /\ h = 0 THEN queue_push(west_low, t, ns) ELSE west_low
            /\ last_op' = [op |-> "push", cls |-> trains[t], idx |-> t, ns |-> ns,
                           before |-> QueueOf(trains[t]),
                           after |-> queue_push(QueueOf(trains[t]), t, ns)]
    /\ UNCHANGED <<trains, n_trains, pc, my_turn, usleep_from, clock, mutex, dpc,
                   sched, sel_log, crossed, spurious, run, prev_ts, prev_log>>

QueuePopOp(c) ==
    LET r == queue_pop(QueueOf(c))
    IN  /\ east_high' = IF c.dir = EAST /\ c.high_priority # 0 THEN r.head ELSE east_high
        /\ east_low'  = IF c.dir = EAST /\ c.high_priority = 0 THEN r.head ELSE east_low
        /\ west_high' = IF c.dir # EAST /\ c.high_priority # 0 THEN r.head ELSE west_high
        /\ west_low'  = IF c.dir # EAST /\ c.high_priority = 0 THEN r.head ELSE west_low
        /\ last_op' = [op |-> "pop", cls |-> c, idx |-> r.idx, ns |-> 0,
                       before |-> QueueOf(c), after |-> r.head]
        /\ UNCHANGED <<trains, n_trains, pc, ready_time_ns, my_turn, usleep_from, clock,
                       mutex, dpc, sched, sel_log, crossed, spurious, run, prev_ts,
                       prev_log>>

NextQueueOps ==
    \/ \E t \in Ids : QueuePushOp(t)
    \/ \E c \in TrainClass : QueuePopOp(c)

SpecQueueOps == InitQueueOps /\ [][NextQueueOps]_vars

(***************************************************************************)
(* Observations                                                            *)
(***************************************************************************)

QueueIds(q) == {q[k].idx : k \in 1 .. Len(q)}

Occurrences(q, t) == Cardinality({k \in 1 .. Len(q) : q[k].idx = t})

\* the trains a selection found enqueued
Enqueued(s) ==
    QueueIds(s.east_high) \cup QueueIds(s.east_low)
        \cup QueueIds(s.west_high) \cup QueueIds(s.west_low)

WestReady(s) == s.west_high # << >> \/ s.west_low # << >>
EastReady(s) == s.east_high # << >> \/ s.east_low # << >>
HighReady(s) == s.east_high # << >> \/ s.west_high # << >>
LowReady(s) == s.east_low # << >> \/ s.west_low # << >>

\* which rule of the selection policy decides a selection
BootstrapDecides(s) == s.ever = 0 /\ WestReady(s)
BalancingDecides(s) ==
    /\ ~BootstrapDecides(s)
    /\ s.streak >= 2
    /\ IF s.last = EAST THEN WestReady(s) ELSE EastReady(s)
NormalDecides(s) == ~BootstrapDecides(s) /\ ~BalancingDecides(s)

Selections == 1 .. Len(sel_log)

\* the trains granted the track and not yet through their Done step
Holders == {t \in Ids : my_turn[t] = 1 /\ pc[t] # "done"}

DirsOf(ids) == [i \in 1 .. Len(ids) |-> trains[ids[i]].dir]

\* length of the longest suffix of ds whose elements all equal the last one
TrailingRun(ds) ==
    Cardinality({j \in 1 .. Len(ds) : \A m \in j .. Len(ds) : ds[m] = ds[Len(ds)]})

(***************************************************************************)
(* Properties                                                              *)
(***************************************************************************)

\* C1: at most one train is between its grant (my_turn set) and the end of
\* its Done step, and whenever track_in_use is set exactly one such train
\* exists; in particular at most one train is on the track.
MutualExclusion ==
    /\ Cardinality(Holders) <= 1
    /\ track_in_use = 1 => Cardinality(Holders) = 1
    /\ Cardinality({t \in Ids : pc[t] \in {"crossing", "off", "finishing"}}) <= 1

\* a train is on the track while another one waits in a queue
MutualExclusionWitness ==
    \E t \in Ids : \E u \in Ids :
        /\ pc[t] = "crossing" /\ track_in_use = 1
        /\ pc[u] = "waiting" /\ u \in QueueIds(east_high) \cup QueueIds(east_low)
                                      \cup QueueIds(west_high) \cup QueueIds(west_low)

\* every train has finished and the dispatcher has returned
Terminated ==
    /\ trains_finished = n_trains
    /\ dpc = "exit"
    /\ \A t \in Ids : pc[t] = "done"

\* C2: under fair scheduling every run reaches trains_finished = n with
\* every train granted, crossed and finished, and the dispatcher leaves its
\* loop and returns; the system stays there.
Termination == <>[]Terminated

\* a run of at least two trains that ended, one grant per train
TerminationWitness ==
    /\ Terminated
    /\ n_trains >= 2
    /\ Len(sel_log) = n_trains
    /\ Len(crossed) = n_trains

GrantOrder(log) == [i \in 1 .. Len(log) |-> log[i].idx]

\* the (train, stamp) nodes a selection found enqueued
EnqueuedNodes(s) ==
    {s.east_high[k] : k \in 1 .. Len(s.east_high)}
        \cup {s.east_low[k] : k \in 1 .. Len(s.east_low)}
        \cup {s.west_high[k] : k \in 1 .. Len(s.west_high)}
        \cup {s.west_low[k] : k \in 1 .. Len(s.west_low)}

\* C3 as stated: a second run of the same roster in which every train
\* captures the stamp it captured in the first run grants the trains in the
\* same order as the first run.
SameStampsSameOrder ==
    ( /\ run = 2
      /\ Terminated
      /\ ready_time_ns = prev_ts )
    => GrantOrder(sel_log) = GrantOrder(prev_log)

\* C3 amended: the two runs agree on their i-th grant whenever, at each of
\* the selections 1..i, the same trains with the same stamps were enqueued
\* in both runs; the order is a function of the stamps and of which trains
\* had enqueued themselves when the dispatcher selected.
SameArrivalsSameOrder ==
    run = 2 =>
        \A i \in Selections :
            ( /\ i <= Len(prev_log)
              /\ \A j \in 1 .. i :
                    EnqueuedNodes(sel_log[j]) = EnqueuedNodes(prev_log[j]) )
            => sel_log[i].idx = prev_log[i].idx

\* a replay of two trains with the stamps and arrivals of the first run,
\* both trains enqueued at the first selection, and the same order
SameArrivalsWitness ==
    /\ run = 2
    /\ Terminated
    /\ n_trains = 2
    /\ ready_time_ns = prev_ts
    /\ Len(sel_log) = Len(prev_log)
    /\ \A j \in Selections : EnqueuedNodes(sel_log[j]) = EnqueuedNodes(prev_log[j])
    /\ Cardinality(EnqueuedNodes(sel_log[1])) = 2
    /\ GrantOrder(sel_log) = GrantOrder(prev_log)

\* C4 as stated: of two trains with the same ready stamp, the one with the
\* lower id is granted first, whatever their queues and arrival order.
TieBreakAnyTwoTrains ==
    \A i \in Selections : \A a \in Ids : \A b \in Ids :
        ( /\ a < b
          /\ ready_time_ns[a] # -1
          /\ ready_time_ns[a] = ready_time_ns[b]
          /\ sel_log[i].idx = b )
        => \E j \in 1 .. (i - 1) : sel_log[j].idx = a

\* C4 amended: of two trains with the same ready stamp and the same
\* priority that are both enqueued at a selection, the one with the higher
\* id is not the one granted, provided they share a direction or the normal
\* rule decides the selection.
TieBreakAtSelection ==
    \A i \in Selections :
        LET s == sel_log[i]
        IN  \A a \in Enqueued(s) : \A b \in Enqueued(s) :
                ( /\ a < b
                  /\ ready_time_ns[a] = ready_time_ns[b]
                  /\ trains[a].high_priority = trains[b].high_priority
                  /\ (trains[a].dir = trains[b].dir \/ NormalDecides(s)) )
                => s.idx # b

\* two tied trains of one queue, and two tied trains of opposite directions
\* under the normal rule, the lower id granted in both cases
TieBreakWitness ==
    /\ \E i \in Selections : \E b \in Enqueued(sel_log[i]) :
          /\ sel_log[i].idx < b
          /\ sel_log[i].idx >= 0
          /\ ready_time_ns[sel_log[i].idx] = ready_time_ns[b]
          /\ trains[sel_log[i].idx] = trains[b]
    /\ \E i \in Selections : \E b \in Enqueued(sel_log[i]) :
          /\ sel_log[i].idx < b
          /\ sel_log[i].idx >= 0
          /\ ready_time_ns[sel_log[i].idx] = ready_time_ns[b]
          /\ trains[sel_log[i].idx].high_priority = trains[b].high_priority
          /\ trains[sel_log[i].idx].dir # trains[b].dir
          /\ NormalDecides(sel_log[i])

\* C5: a selection made while have_ever_crossed is false and a West train is
\* enqueued grants the head of West-High, else the head of West-Low,
\* whatever East trains are enqueued; with a West-Low and an East-High train
\* both enqueued the West train goes first and the East train after it.
BootstrapPrefersWest ==
    \A i \in Selections :
        LET s == sel_log[i]
        IN  (s.ever = 0 /\ WestReady(s)) =>
                /\ s.idx = (IF s.west_high # << >> THEN Head(s.west_high).idx
                                                   ELSE Head(s.west_low).idx)
                /\ trains[s.idx].dir = WEST
                /\ \A e \in QueueIds(s.east_high) \cup QueueIds(s.east_low) :
                      \A j \in 1 .. i : sel_log[j].idx # e

\* scenario A: West-Low and East-High both enqueued, West granted, then East
BootstrapWitness ==
    /\ n_trains = 2
    /\ Len(sel_log) = 2
    /\ sel_log[1].ever = 0
    /\ sel_log[1].west_low # << >> /\ sel_log[1].east_high # << >>
    /\ trains[sel_log[1].idx] = [dir |-> WEST, high_priority |-> 0]
    /\ trains[sel_log[2].idx] = [dir |-> EAST, high_priority |-> 1]

\* C6: a selection made after two or more consecutive completed crossings
\* of one direction, with a train of the opposite direction enqueued (High
\* or Low), grants a train of the opposite direction, whatever trains of
\* the same direction are enqueued.
BalancingForcesSwitch ==
    \A i \in Selections :
        LET s == sel_log[i]
            ds == DirsOf(s.crossed)
            k == Len(ds)
        IN  ( /\ k >= 2
              /\ ds[k] = ds[k - 1]
              /\ IF ds[k] = EAST THEN WestReady(s) ELSE EastReady(s) )
            => /\ s.idx >= 0
               /\ trains[s.idx].dir # ds[k]

\* after two crossings of one direction a Low train of the other direction
\* is granted although a High train of the same direction is enqueued
BalancingWitness ==
    \E i \in Selections :
        LET s == sel_log[i]
            ds == DirsOf(s.crossed)
            k == Len(ds)
        IN  /\ k >= 2
            /\ ds[k] = WEST /\ ds[k - 1] = WEST
            /\ s.west_high # << >>
            /\ s.east_high = << >> /\ s.east_low # << >>
            /\ s.idx = Head(s.east_low).idx

\* scenario B: four East trains and one West train (QueuedTrains + 1 trains,
\* one of them West), all enqueued when the dispatcher first selects
ScenarioBAllEnqueued ==
    /\ ScenarioB(n_trains, trains)
    /\ Len(sel_log) >= 1
    /\ Enqueued(sel_log[1]) = Ids

EastCount(ids) == Cardinality({k \in 1 .. Len(ids) : trains[ids[k]].dir = EAST})

\* C8 as stated: in scenario B the selection made once the second East
\* crossing has completed grants the West train.
WestAfterSecondEast ==
    ScenarioBAllEnqueued =>
        \A i \in Selections :
            EastCount(sel_log[i].crossed) = 2 => trains[sel_log[i].idx].dir = WEST

\* C8 amended: in scenario B the West train is granted first (bootstrap
\* rule); every later selection, the one after the second East crossing
\* included, finds no West train enqueued and grants an East train.
WestFirstThenEast ==
    ScenarioBAllEnqueued =>
        /\ trains[sel_log[1].idx].dir = WEST
        /\ \A i \in Selections :
              i >= 2 => /\ ~WestReady(sel_log[i])
                        /\ sel_log[i].idx >= 0
                        /\ trains[sel_log[i].idx].dir = EAST

\* scenario B at the selection that follows the second East crossing:
\* streak 2 going East, East trains enqueued, an East train granted
ScenarioBWitness ==
    /\ ScenarioBAllEnqueued
    /\ \E i \in Selections :
          /\ EastCount(sel_log[i].crossed) = 2
          /\ sel_log[i].streak = 2 /\ sel_log[i].last = EAST
          /\ Cardinality(Enqueued(sel_log[i])) = 2
          /\ trains[sel_log[i].idx].dir = EAST

\* C7: at a selection decided by neither the bootstrap rule nor the
\* balancing rule, a High-priority train is granted whenever one is enqueued.
PriorityOrdering ==
    \A i \in Selections :
        LET s == sel_log[i]
        IN  (NormalDecides(s) /\ HighReady(s)) =>
                /\ s.idx >= 0
                /\ trains[s.idx].high_priority = 1

\* the normal rule decides with High and Low trains enqueued, High granted
PriorityWitness ==
    \E i \in Selections :
        /\ NormalDecides(sel_log[i])
        /\ HighReady(sel_log[i]) /\ LowReady(sel_log[i])
        /\ sel_log[i].idx >= 0
        /\ trains[sel_log[i].idx].high_priority = 1

\* C9 as stated: a train is in exactly one ready queue from the capture of
\* its ready stamp until its grant, and in none before or after.
InQueueFromStamp ==
    \A t \in Ids :
        Occurrences(east_high, t) + Occurrences(east_low, t)
            + Occurrences(west_high, t) + Occurrences(west_low, t)
        = (IF ready_time_ns[t] # -1 /\ my_turn[t] = 0 THEN 1 ELSE 0)

\* C9 amended: a train is in exactly one ready queue, the one of its
\* direction and priority and with exactly one node, from its enqueue
\* (queue_push under the mutex) until its grant, and in no queue before
\* (the interval between the stamp and the enqueue included) or after.
InQueueFromEnqueue ==
    \A t \in Ids :
        LET here == pc[t] \in {"waiting", "woken"} /\ my_turn[t] = 0
            one == IF here THEN 1 ELSE 0
            d == trains[t].dir
            h == trains[t].high_priority
        IN  /\ Occurrences(east_high, t) = (IF d = EAST /\ h = 1 THEN one ELSE 0)
            /\ Occurrences(east_low, t) = (IF d = EAST /\ h = 0 THEN one ELSE 0)
            /\ Occurrences(west_high, t) = (IF d = WEST /\ h = 1 THEN one ELSE 0)
            /\ Occurrences(west_low, t) = (IF d = WEST /\ h = 0 THEN one ELSE 0)

\* one train stamped and not yet enqueued, one enqueued, one granted
InQueueWitness ==
    \E t \in Ids : \E u \in Ids : \E v \in Ids :
        /\ pc[t] = "ready" /\ ready_time_ns[t] # -1
        /\ pc[u] = "waiting" /\ Occurrences(east_low, u) = 1
        /\ my_turn[v] = 1 /\ pc[v] = "crossing"

\* C10: same_dir_streak is the length of the run of most recent completed
\* crossings that share the direction last_dir (0 before any crossing),
\* whichever the direction of the first completed crossing.
StreakCountsTrailingRun ==
    /\ same_dir_streak = TrailingRun(DirsOf(crossed))
    /\ crossed # << >> => last_dir = trains[crossed[Len(crossed)]].dir
    /\ crossed = << >> => same_dir_streak = 0

\* a first crossing going West, then a reset to 1 and an increment to 2
StreakWitness ==
    /\ DirsOf(crossed) = <<WEST, EAST, EAST>>
    /\ same_dir_streak = 2

\* C11: trains_finished never decreases, grows by exactly 1 at each Done
\* step and at no other step, lies in 0..n, and equals the number of trains
\* that have completed their Done step.
FinishedCountsDone ==
    [][ /\ trains_finished' >= trains_finished
        /\ trains_finished' \in 0 .. n_trains
        /\ trains_finished' = Cardinality({t \in Ids : pc'[t] = "done"})
        /\ trains_finished' =
              trains_finished
                + Cardinality({t \in Ids : pc[t] # "done" /\ pc'[t] = "done"})
        /\ Cardinality({t \in Ids : pc[t] # "done" /\ pc'[t] = "done"}) <= 1
        /\ (trains_finished' = n_trains) <=> (\A t \in Ids : pc'[t] = "done")
      ]_vars

\* some trains have finished and counted, another one has not
FinishedWitness ==
    /\ trains_finished >= 2
    /\ trains_finished < n_trains
    /\ Cardinality({t \in Ids : pc[t] = "done"}) = trains_finished
    /\ \E t \in Ids : pc[t] = "crossing"

AllQueueIds ==
    QueueIds(east_high) \cup QueueIds(east_low)
        \cup QueueIds(west_high) \cup QueueIds(west_low)

\* C12: a grant happens only with track_in_use clear; it sets track_in_use
\* and the my_turn flag of exactly one train, the one just removed from a
\* ready queue; that train was enqueued and had not been granted before.
GrantDiscipline ==
    [][ Len(sel_log') = Len(sel_log) + 1 =>
          LET g == sel_log'[Len(sel_log')].idx
          IN  /\ track_in_use = 0
              /\ track_in_use' = 1
              /\ g \in AllQueueIds
              /\ AllQueueIds' = AllQueueIds \ {g}
              /\ pc[g] \in {"waiting", "woken"}
              /\ my_turn[g] = 0
              /\ my_turn' = [my_turn EXCEPT ![g] = 1]
              /\ \A j \in Selections : sel_log[j].idx # g
      ]_vars

\* a second grant, made with the track free and two trains enqueued
GrantWitness ==
    /\ Len(sel_log) = 2
    /\ sel_log[2].in_use = 0
    /\ Cardinality(Enqueued(sel_log[2])) = 2
    /\ track_in_use = 1
    /\ my_turn[sel_log[2].idx] = 1
    /\ sel_log[1].idx # sel_log[2].idx
    /\ Cardinality({t \in Ids : my_turn[t] = 1}) = 2

\* C13: every selection the dispatcher runs after its wait condition has
\* passed (a queue non-empty, the track free, not all trains finished)
\* returns a train, never -1.
SelectionNeverEmpty ==
    \A i \in Selections :
        /\ sel_log[i].idx >= 0
        /\ sel_log[i].idx \in Enqueued(sel_log[i])
        /\ sel_log[i].in_use = 0

\* a selection that reaches the last branch: only Low trains enqueued
SelectionWitness ==
    \E i \in Selections :
        /\ ~HighReady(sel_log[i])
        /\ NormalDecides(sel_log[i])
        /\ sel_log[i].east_low # << >> /\ sel_log[i].west_low # << >>
        /\ sel_log[i].idx >= 0

\* C14: have_ever_crossed is false at the first selection of a run and
\* true at every later one, so the bootstrap rule can decide the first
\* grant only.
BootstrapOnlyFirst ==
    \A i \in Selections :
        /\ sel_log[i].ever = (IF i = 1 THEN 0 ELSE 1)
        /\ BootstrapDecides(sel_log[i]) => i = 1
        /\ (i = Len(sel_log) /\ track_in_use = 0) => have_ever_crossed = 1

\* a later selection with a West train enqueued that grants an East train
BootstrapOnlyFirstWitness ==
    \E i \in Selections :
        /\ i >= 2
        /\ sel_log[i].ever = 1
        /\ WestReady(sel_log[i])
        /\ trains[sel_log[i].idx].dir = EAST

\* the (ready_ns, id) key of a is not after the key of b
KeyLeq(a, b) ==
    a.ready_ns < b.ready_ns \/ (a.ready_ns = b.ready_ns /\ a.idx <= b.idx)

SortedNoDup(q) ==
    /\ \A i, j \in 1 .. Len(q) : i < j => KeyLeq(q[i], q[j])
    /\ \A i, j \in 1 .. Len(q) : i # j => q[i].idx # q[j].idx

NodesOf(q) == {q[i] : i \in 1 .. Len(q)}

\* C15: after any sequence of queue_push and queue_pop calls every ready
\* queue is sorted ascending by (ready_ns, id) and holds no train twice; a
\* push adds exactly the pushed node; a pop removes and returns the node
\* with the minimal key, or returns -1 and leaves the queue as it was when
\* the queue is empty.
QueueSortedPushPop ==
    /\ \A c \in TrainClass : SortedNoDup(QueueOf(c))
    /\ last_op.op # "none" => QueueOf(last_op.cls) = last_op.after
    /\ last_op.op = "push" =>
          /\ Len(last_op.after) = Len(last_op.before) + 1
          /\ NodesOf(last_op.after) =
                NodesOf(last_op.before) \cup {Node(last_op.idx, last_op.ns)}
          /\ Node(last_op.idx, last_op.ns) \notin NodesOf(last_op.before)
    /\ (last_op.op = "pop" /\ last_op.before # << >>) =>
          /\ \E a \in NodesOf(last_op.before) :
                /\ a.idx = last_op.idx
                /\ \A b \in NodesOf(last_op.before) : KeyLeq(a, b)
                /\ NodesOf(last_op.after) = NodesOf(last_op.before) \ {a}
          /\ Len(last_op.after) = Len(last_op.before) - 1
    /\ (last_op.op = "pop" /\ last_op.before = << >>) =>
          /\ last_op.idx = -1
          /\ last_op.after = << >>

\* a pop from a queue of three nodes, two of them with equal stamps and the
\* lowest id at the tail with a later stamp
QueueOpsWitness ==
    /\ last_op.op = "pop"
    /\ Len(last_op.before) = 3
    /\ last_op.before[1].ready_ns = last_op.before[2].ready_ns
    /\ last_op.before[3].ready_ns > last_op.before[2].ready_ns
    /\ last_op.before[3].idx < last_op.before[1].idx
    /\ last_op.idx = last_op.before[1].idx
    /\ Len(last_op.after) = 2

\* the id with the smallest (ready_ns, id) key in a non-empty set of nodes
MinKeyIdx(nodes) ==
    (CHOOSE a \in nodes : \A b \in nodes : KeyLeq(a, b)).idx

\* C16: a selection decided by the normal rule grants the train with the
\* smallest (ready_ns, id) key among all East-High and West-High trains if
\* there is one, otherwise the smallest among all East-Low and West-Low
\* trains, whatever the directions.
NormalPicksMinKey ==
    \A i \in Selections :
        LET s == sel_log[i]
        IN  NormalDecides(s) =>
              IF HighReady(s)
              THEN s.idx = MinKeyIdx(NodesOf(s.east_high) \cup NodesOf(s.west_high))
              ELSE /\ LowReady(s)
                   /\ s.idx = MinKeyIdx(NodesOf(s.east_low) \cup NodesOf(s.west_low))

\* after the first crossing the normal rule compares an East-High and a
\* West-High head and grants the West one, which has the smaller key
NormalWitness ==
    \E i \in Selections :
        LET s == sel_log[i]
        IN  /\ s.ever = 1
            /\ NormalDecides(s)
            /\ s.east_high # << >> /\ s.west_high # << >>
            /\ s.idx = Head(s.west_high).idx
            /\ KeyLeq(Head(s.west_high), Head(s.east_high))

\* C17: with have_ever_crossed set and same_dir_streak >= 2 the selection
\* returns the head of the High queue opposite to last_dir if that queue is
\* non-empty, else the head of the opposite Low queue if non-empty, and
\* otherwise what the normal rule returns on the same four queues.
BalancingThenNormal ==
    \A i \in Selections :
        LET s == sel_log[i]
            oh == IF s.last = EAST THEN s.west_high ELSE s.east_high
            ol == IF s.last = EAST THEN s.west_low ELSE s.east_low
        IN  (s.ever = 1 /\ s.streak >= 2) =>
              IF oh # << >> THEN s.idx = Head(oh).idx
              ELSE IF ol # << >> THEN s.idx = Head(ol).idx
              ELSE s.idx = normal_rule(s.east_high, s.east_low,
                                       s.west_high, s.west_low).idx

\* after two East crossings no West train is enqueued and the normal rule
\* grants the East-High head although an East-Low train is enqueued too
BalancingFallThroughWitness ==
    \E i \in Selections :
        LET s == sel_log[i]
        IN  /\ s.ever = 1 /\ s.streak >= 2 /\ s.last = EAST
            /\ ~WestReady(s)
            /\ s.east_high # << >> /\ s.east_low # << >>
            /\ s.idx = Head(s.east_high).idx

\* C18: every step that writes a ready queue, track_in_use, trains_finished,
\* have_ever_crossed, last_dir, same_dir_streak or a my_turn flag is taken
\* by the thread that holds scheduling_mutex; a train holds the mutex only
\* between a lock and the following unlock or wait, never during its
\* loading or crossing delay.
WritesUnderLock ==
    [][ /\ (queues' # queues \/ sched' # sched \/ my_turn' # my_turn) =>
              /\ mutex # MUTEX_FREE
              /\ mutex \in Ids =>
                    /\ pc[mutex] \in {"locked", "finishing"}
                    /\ pc'[mutex] # pc[mutex]
                    /\ sel_log' = sel_log
              /\ mutex = DISPATCHER =>
                    /\ dpc = "loop"
                    /\ sel_log' # sel_log
                    /\ \A t \in Ids : pc'[t] # pc[t] => my_turn'[t] # my_turn[t]
        /\ \A t \in Ids :
              /\ pc[t] \in {"loading", "ready", "waiting", "woken", "crossing", "off", "done"}
                    => mutex # t
              /\ pc'[t] \in {"loading", "ready", "waiting", "woken", "crossing", "off", "done"}
                    => mutex' # t
      ]_vars

\* while one train is crossing another train has taken the mutex, enqueued
\* itself and waits: it was in no queue when the crossing train was granted
WritesUnderLockWitness ==
    /\ sel_log # << >>
    /\ \E t, u \in Ids :
          /\ sel_log[Len(sel_log)].idx = t
          /\ pc[t] = "crossing"
          /\ pc[u] = "waiting"
          /\ u \in AllQueueIds
          /\ u \notin Enqueued(sel_log[Len(sel_log)])
          /\ mutex = MUTEX_FREE

\* C19: a train enters its crossing only with its my_turn flag set; a
\* wake-up with the flag unset puts it back to waiting; a grant finds its
\* train enqueued and waiting (or woken and about to wait again), never
\* before the wait, and wakes it, so a granted train is never left waiting.
CrossingOnlyOnGrant ==
    [][ \A t \in Ids :
          /\ (pc[t] # "crossing" /\ pc'[t] = "crossing") =>
                /\ my_turn[t] = 1
                /\ pc[t] = "woken"
          /\ (pc[t] = "woken" /\ my_turn[t] = 0 /\ pc'[t] # "woken") =>
                /\ pc'[t] = "waiting"
                /\ my_turn'[t] = 0
          /\ (my_turn[t] = 0 /\ my_turn'[t] = 1) =>
                /\ pc[t] \in {"waiting", "woken"}
                /\ pc'[t] = "woken"
                /\ mutex = DISPATCHER
          /\ pc[t] = "locked" => (mutex = t /\ my_turn[t] = 0)
          /\ my_turn'[t] = 1 => pc'[t] \in {"woken", "crossing", "off", "finishing", "done"}
      ]_vars

\* a granted train has been woken with its flag set while another train has
\* been woken with its flag unset
CrossingOnlyOnGrantWitness ==
    \E t, u \in Ids :
        /\ pc[t] = "woken" /\ my_turn[t] = 1
        /\ pc[u] = "woken" /\ my_turn[u] = 0

\* trains a and b share direction and priority
SameClass(a, b) == trains[a] = trains[b]

\* the captured (ready_time_ns, id) key of train a is before that of train b
StampKeyLess(a, b) ==
    \/ ready_time_ns[a] < ready_time_ns[b]
    \/ (ready_time_ns[a] = ready_time_ns[b] /\ a < b)

\* C20 as stated: of two trains of the same direction and priority the one
\* with the smaller captured (ready_timestamp, id) key is granted first, in
\* every interleaving.
SmallerKeyGrantedFirst ==
    \A a, b \in Ids :
        ( /\ a # b
          /\ SameClass(a, b)
          /\ ready_time_ns[a] # -1 /\ ready_time_ns[b] # -1
          /\ StampKeyLess(a, b) )
        => \A i \in Selections :
              sel_log[i].idx = b => \E j \in 1 .. (i - 1) : sel_log[j].idx = a

\* C20: of two trains of the same direction and priority that are both
\* enqueued at a selection, the one with the larger captured
\* (ready_timestamp, id) key is not the train granted; so a train is granted
\* before a same-class train with a smaller key only if that train had not
\* been enqueued at the selection.
EnqueuedSmallerKeyFirst ==
    \A i \in Selections :
        \A a, b \in Ids :
            ( /\ a # b
              /\ SameClass(a, b)
              /\ ready_time_ns[a] # -1 /\ ready_time_ns[b] # -1
              /\ StampKeyLess(a, b)
              /\ sel_log[i].idx = b )
            => /\ a \notin Enqueued(sel_log[i])
               /\ \/ \E j \in 1 .. (i - 1) : sel_log[j].idx = a
                  \/ \A j \in 1 .. i : a \notin Enqueued(sel_log[j])

\* two trains of one class enqueued at a selection; the one with the higher
\* id carries the earlier stamp and is granted
EnqueuedSmallerKeyWitness ==
    \E i \in Selections :
        \E a, b \in Ids :
            /\ a > b
            /\ SameClass(a, b)
            /\ {a, b} \subseteq Enqueued(sel_log[i])
            /\ ready_time_ns[a] < ready_time_ns[b]
            /\ sel_log[i].idx = a

\* the overtaking case: b is granted while a, stamped strictly earlier, was
\* not yet in its queue
OvertakenBeforeEnqueue ==
    \E i \in Selections :
        \E a, b \in Ids :
            /\ SameClass(a, b)
            /\ ready_time_ns[a] # -1
            /\ ready_time_ns[a] < ready_time_ns[b]
            /\ sel_log[i].idx = b
            /\ a \notin Enqueued(sel_log[i])
            /\ \A j \in 1 .. (i - 1) : sel_log[j].idx # a

====
